---- MODULE Spec2Model ----
(***************************************************************************)
(* Model of arc-ask: one invocation of either command variant.             *)
(*   direct  : internal/cmd/ask.go   (newAskCmd, direct AI client)         *)
(*   bridge  : internal/cmd/root.go  (NewRootCmd, arc-ai bridge with the    *)
(*             pi subprocess fallback)                                      *)
(* Text is modelled as sequences of one-character strings so that          *)
(* trimming, prefix tests and concatenation are computed, not assumed.     *)
(***************************************************************************)
EXTENDS Naturals, Sequences, FiniteSets

----------------------------------------------------------------------------
(* Bounds of the model *)

\* longest list of --context references
MaxCtx == 2
\* the clock stops advancing once it has reached this many seconds
MaxClock == 90

----------------------------------------------------------------------------
(* Program constants *)

\* ask.go:22
defaultModel == "claude-sonnet-4-5-20250929"
\* root.go:43, the BridgeClient timeout in seconds
Timeout == 60
\* seconds that pass in one step of the clock while the subprocess runs
TickSeconds == 30

----------------------------------------------------------------------------
(* Text helpers (package strings, fmt) *)

IsSpace(c) == c \in {" ", "\n", "\t", "\r"}

RECURSIVE TrimLeft(_)
TrimLeft(s) ==
  IF s = <<>> THEN <<>>
  ELSE IF IsSpace(Head(s)) THEN TrimLeft(Tail(s)) ELSE s

RECURSIVE TrimRight(_)
TrimRight(s) ==
  IF s = <<>> THEN <<>>
  ELSE IF IsSpace(s[Len(s)]) THEN TrimRight(SubSeq(s, 1, Len(s) - 1)) ELSE s

TrimSpace(s) == TrimRight(TrimLeft(s))

HasPrefix(s, p) == Len(s) >= Len(p) /\ SubSeq(s, 1, Len(p)) = p

TrimPrefix(s, p) == IF HasPrefix(s, p) THEN SubSeq(s, Len(p) + 1, Len(s)) ELSE s

Sigil == <<"@">>

\* "\n\nInput:\n"
InputLabel == <<"\n", "\n", "I", "n", "p", "u", "t", ":", "\n">>
\* "\n\nContext ("
ContextOpen == <<"\n", "\n", "C", "o", "n", "t", "e", "x", "t", " ", "(">>
\* "):\n"
ContextClose == <<")", ":", "\n">>

\* fmt.Sprintf("%s\n\nInput:\n%s", arg, input)
SprintfInput(arg, input) == arg \o InputLabel \o input

----------------------------------------------------------------------------
(* The file system seen by os.Stat and os.ReadFile *)

PathF == <<"f">>
PathG == <<"g">>
PathD == <<"d">>
PathU == <<"u">>
PathM == <<"m">>

FileKind(path) ==
  IF path \in {PathF, PathG} THEN "file"
  ELSE IF path = PathD THEN "dir"
  ELSE IF path = PathU THEN "noperm"
  ELSE "missing"

FileData(path) ==
  IF path = PathF THEN <<"x", "\n">>
  ELSE IF path = PathG THEN <<" ", "y">>
  ELSE <<>>

\* os.Stat(path) returns an error
StatFails(path) == FileKind(path) = "missing"
\* info.IsDir()
IsDir(path) == FileKind(path) = "dir"
\* os.ReadFile(path) returns an error
ReadFileFails(path) == FileKind(path) # "file"

----------------------------------------------------------------------------
(* String maps (map[string]string) *)

EmptyMap == [k \in {} |-> <<>>]

MapSet(m, k, v) == [x \in (DOMAIN m) \cup {k} |-> IF x = k THEN v ELSE m[x]]

cloneStringMap(src) ==
  IF Cardinality(DOMAIN src) = 0 THEN EmptyMap
  ELSE [k \in DOMAIN src |-> src[k]]

\* faulty variant: binds the input only when the caller left the key free
TemplateDataKeepCaller(vars, input) ==
  IF "Input" \in DOMAIN vars THEN cloneStringMap(vars)
  ELSE MapSet(cloneStringMap(vars), "Input", input)

\* ask.go:215-216
TemplateData(vars, input) == MapSet(cloneStringMap(vars), "Input", input)

----------------------------------------------------------------------------
(* Context merging *)

\* the state of the strings.Builder loop: error so far, text built, files read
MergeStart(promptText) == [err |-> "none", text |-> promptText, reads |-> <<>>]

MergeFail(acc, kind) == [err |-> kind, text |-> <<>>, reads |-> acc.reads]

\* faulty variant: leaves the path out of the label line
ContextBlockNoPath(path, data) == ContextOpen \o ContextClose \o data

\* ask.go:277-280 and root.go:286-289
ContextBlock(path, data) == ContextOpen \o path \o ContextClose \o data

\* ask.go:252-255
ContextPath(raw) ==
  LET path == TrimSpace(raw)
  IN IF HasPrefix(path, Sigil) THEN TrimPrefix(path, Sigil) ELSE path

\* faulty variant: skips a directory instead of failing
MergeStepAskSkipDir(acc, raw) ==
  LET path == ContextPath(raw)
  IN IF acc.err # "none" THEN acc
     ELSE IF path = <<>> THEN acc
     ELSE IF StatFails(path) THEN MergeFail(acc, "context-read")
     ELSE IF IsDir(path) THEN acc
     ELSE IF ReadFileFails(path) THEN MergeFail(acc, "context-read")
     ELSE [err |-> "none",
           text |-> acc.text \o ContextBlock(path, FileData(path)),
           reads |-> Append(acc.reads, path)]

\* ask.go:251-281, one iteration of the loop (an earlier return ends the loop)
MergeStepAsk(acc, raw) ==
  LET path == ContextPath(raw)
  IN IF acc.err # "none" THEN acc
     ELSE IF path = <<>> THEN acc
     ELSE IF StatFails(path) THEN MergeFail(acc, "context-read")
     ELSE IF IsDir(path) THEN MergeFail(acc, "context-dir")
     ELSE IF ReadFileFails(path) THEN MergeFail(acc, "context-read")
     ELSE [err |-> "none",
           text |-> acc.text \o ContextBlock(path, FileData(path)),
           reads |-> Append(acc.reads, path)]

RECURSIVE MergeLoopAsk(_, _, _)
MergeLoopAsk(acc, files, i) ==
  IF i > Len(files) THEN acc
  ELSE MergeLoopAsk(MergeStepAsk(acc, files[i]), files, i + 1)

\* ask.go:243-284
mergeContextToPrompt(promptText, files) ==
  IF Len(files) = 0 THEN MergeStart(promptText)
  ELSE MergeLoopAsk(MergeStart(promptText), files, 1)

\* root.go:280-290, one iteration of the loop
MergeStepRoot(acc, f) ==
  IF acc.err # "none" THEN acc
  ELSE IF ReadFileFails(f) THEN MergeFail(acc, "context-read")
  ELSE [err |-> "none",
        text |-> acc.text \o ContextBlock(f, FileData(f)),
        reads |-> Append(acc.reads, f)]

RECURSIVE MergeLoopRoot(_, _, _)
MergeLoopRoot(acc, files, i) ==
  IF i > Len(files) THEN acc
  ELSE MergeLoopRoot(MergeStepRoot(acc, files[i]), files, i + 1)

\* root.go:272-293
mergeContext(in, files) ==
  IF Len(files) = 0 THEN MergeStart(in)
  ELSE MergeLoopRoot(MergeStart(in), files, 1)

----------------------------------------------------------------------------
(* Prompt assembly *)

\* faulty variant: drops the blank line and the label
DirectQuestionGlued(arg, input) == IF input # <<>> THEN arg \o input ELSE arg

\* ask.go:234-237
DirectQuestion(arg, input) ==
  IF input # <<>> THEN SprintfInput(arg, input) ELSE arg

\* ask.go:225-228
TemplateModel(pModel, dflt) == IF pModel # "" THEN pModel ELSE dflt

\* ask.go:80-83
EffectiveModel(flag) == IF flag = "" THEN defaultModel ELSE flag

\* ask.go:89-92
FinalModel(pm, effective) == IF pm = "" THEN effective ELSE pm

\* the template body rendered by p.Execute: system "S", user "U:{{.Input}}"
RenderSystem(data) == <<"S">>
RenderUser(data) == <<"U", ":">> \o data["Input"]

\* faulty variant: accepts every target
ValidateTargetOkAny(p) == TRUE

\* tmux.ValidateTarget accepts the session:window.pane shape
ValidateTargetOk(p) == p = "fe:0.0"

----------------------------------------------------------------------------
(* Inputs of an invocation *)

Question == <<"q">>
TemplateArg == <<"@", "t">>
ArgLists == {<<>>, <<Question>>, <<TemplateArg>>}

VarMaps ==
  { EmptyMap,
    [k \in {"Input"} |-> <<"v">>],
    [k \in {"Name"} |-> <<"n">>],
    [k \in {"Input", "Name"} |-> IF k = "Input" THEN <<"v">> ELSE <<"n">>] }

Panes == {"", "bad-format", "fe:0.0"}
OutputFormats == {"table", "json", "yaml", "quiet"}
ModelFlags == {"", "claude-haiku-4-5-20251001"}
TemplateModels == {"", "claude-opus-4-20250514"}
ProviderFlags == {"", "openai"}
ConfigProvider == "anthropic"

\* --context references of the direct command: plain, sigil and blank
AskRefs == {PathF, <<"@", "g">>, PathD, <<" ">>, PathM}
\* --context references of the bridge command
RootRefs == {PathF, PathG, PathD, PathM}

RECURSIVE SeqsUpTo(_, _)
SeqsUpTo(S, n) ==
  IF n = 0 THEN {<<>>}
  ELSE LET shorter == SeqsUpTo(S, n - 1)
       IN shorter \cup {Append(s, x) : s \in {t \in shorter : Len(t) = n - 1}, x \in S}

ToolLists == {<<>>, <<"security">>}

\* the text a pane capture or a pipe delivers
CapturedText == <<"t">>
\* the raw answers a backend returns
Answers == {<<"a">>, <<" ", "a", "\n">>}

----------------------------------------------------------------------------
(* State of one invocation *)

VARIABLES
  variant,        \* "direct" (ask.go) or "bridge" (root.go)
  pc,             \* position in RunE
  listTemplates, outFmt, model, provider, args, vars, pane, contextFiles, tools,
  input,          \* text returned by gatherInput (root.go: then by mergeContext)
  tmplModel,      \* p.Model of the loaded template
  execCalls,      \* calls of p.Execute
  execData,       \* the bindings handed to p.Execute
  systemPrompt, userPrompt, promptModel, finalModel,
  userWithContext,\* ask.go: merged prompt; root.go: the full prompt
  cfgProvider,    \* cfg.Provider
  clientCreated,  \* ai.NewClient returned a client
  daemonUp,       \* result of client.IsDaemonRunning()
  warned,         \* the fallback note was written to stderr
  backendUsed,    \* "none", "direct-client", "daemon" or "pi"
  procStarted,    \* subprocesses started by cmd.Output()
  piLookup,       \* result of execLookPath("pi"): "none" before the lookup
  clock,          \* seconds since the timeout context was created
  backendCalls,   \* calls of service.Run / client.Ask / client.AskWithTools
  callOpts,       \* the options of the backend call
  response,       \* the answer text returned by the backend
  err,            \* the error RunE returns ("none" while there is none)
  errCause,       \* the wrapped cause of err
  errHint,        \* the hint, first suggestion or cause text shown with err
  stdoutKind, stdoutText, stdoutObj,   \* what was written to the answer stream
  reads,          \* paths whose content os.ReadFile returned
  captureCalls,   \* calls of tmux.Capture
  stdinReads      \* calls of io.ReadAll on standard input

inputVars == <<variant, listTemplates, outFmt, model, provider, args, vars, pane,
               contextFiles, tools>>
promptVars == <<tmplModel, execCalls, execData, systemPrompt, userPrompt,
                promptModel, finalModel>>
backendVars == <<cfgProvider, clientCreated, daemonUp, warned, backendUsed,
                 procStarted, piLookup, clock, backendCalls, callOpts, response>>
outVars == <<stdoutKind, stdoutText, stdoutObj>>
gatherVars == <<captureCalls, stdinReads>>

vars_all == <<pc, inputVars, input, promptVars, userWithContext, backendVars,
              err, errCause, errHint, outVars, reads, gatherVars>>

NoCall == [model |-> "", system |-> <<>>, prompt |-> <<>>, tools |-> <<>>]

Init ==
  /\ variant \in {"direct", "bridge"}
  /\ pc = "start"
  /\ listTemplates \in BOOLEAN
  /\ outFmt \in OutputFormats
  /\ args \in ArgLists
  /\ pane \in Panes
  \* --model, --provider and --var exist in ask.go only, --tools in root.go only
  /\ model \in IF variant = "direct" THEN ModelFlags ELSE {""}
  /\ provider \in IF variant = "direct" THEN ProviderFlags ELSE {""}
  /\ vars \in IF variant = "direct" THEN VarMaps ELSE {EmptyMap}
  /\ tools \in IF variant = "bridge" THEN ToolLists ELSE {<<>>}
  /\ contextFiles \in SeqsUpTo(IF variant = "direct" THEN AskRefs ELSE RootRefs, MaxCtx)
  \* --list-templates returns before any other flag is looked at
  /\ listTemplates => /\ outFmt = "table" /\ args = <<>> /\ pane = ""
                      /\ model = "" /\ provider = "" /\ vars = EmptyMap
                      /\ tools = <<>> /\ contextFiles = <<>>
  /\ input = <<>>
  /\ tmplModel = ""
  /\ execCalls = 0
  /\ execData = EmptyMap
  /\ systemPrompt = <<>>
  /\ userPrompt = <<>>
  /\ promptModel = ""
  /\ finalModel = ""
  /\ userWithContext = <<>>
  /\ cfgProvider = IF variant = "direct" THEN ConfigProvider ELSE ""
  /\ clientCreated = FALSE
  /\ daemonUp = FALSE
  /\ warned = FALSE
  /\ backendUsed = "none"
  /\ procStarted = 0
  /\ piLookup = "none"
  /\ clock = 0
  /\ backendCalls = 0
  /\ callOpts = NoCall
  /\ response = <<>>
  /\ err = "none"
  /\ errCause = "none"
  /\ errHint = ""
  /\ stdoutKind = "none"
  /\ stdoutText = <<>>
  /\ stdoutObj = EmptyMap
  /\ reads = <<>>
  /\ captureCalls = 0
  /\ stdinReads = 0

\* the remedy an error carries: its hint, else its first suggestion, else the
\* text of its cause when that names a remedy
ErrorHint(v, e, cause) ==
  IF v = "direct"
  THEN CASE e = "invalid-pane-target" ->
              "Pane format must be: session:window.pane (e.g., fe:0.0)"
         [] e = "pane-not-found" -> "Check that the tmux session and pane exist"
         [] e = "no-prompt" -> "Ask a direct question: arc-ask \"What is this?\""
         [] e = "template-not-found" ->
              "Check available templates with: arc-ask --list-templates"
         [] e = "template-render" -> "Check that all required variables are provided"
         [] e = "context-read" -> "Ensure the file exists and is accessible"
         [] e = "context-dir" -> "Provide a file path (e.g., README.md)"
         [] OTHER -> ""
  ELSE CASE e = "invalid-pane-target" -> "Format: session:window.pane (e.g., dev:0.0)"
         [] e = "capture-failed" -> "Check that the pane exists: tmux list-panes"
         [] e = "no-prompt" -> "Ask a question: arc-ask 'What is this?'"
         [] e = "ai-query" /\ cause = "pi-not-found" ->
              "Pi not found. Install: npm install -g @mariozechner/pi-coding-agent"
         [] OTHER -> ""

\* RunE returns e
Fail(e, cause) ==
  /\ pc' = "done" /\ err' = e /\ errCause' = cause
  /\ errHint' = ErrorHint(variant, e, cause)

Goto(p) == /\ pc' = p /\ UNCHANGED <<err, errCause, errHint>>

----------------------------------------------------------------------------
(* The direct-client command, ask.go:63-127 *)

\* ask.go:64-71: --list-templates, then outputOpts.Resolve()
AskStart ==
  /\ variant = "direct" /\ pc = "start"
  /\ IF listTemplates
     THEN \E listed \in BOOLEAN :
            IF listed
            THEN /\ stdoutKind' = "listing" /\ Goto("done")
            ELSE /\ stdoutKind' = "none" /\ Fail("list-templates", "list")
     ELSE /\ UNCHANGED stdoutKind
          /\ \E resolved \in BOOLEAN :
               IF resolved THEN Goto("gather") ELSE Fail("output-options", "none")
  /\ UNCHANGED <<inputVars, input, promptVars, userWithContext, backendVars,
                 stdoutText, stdoutObj, reads, gatherVars>>

StdinStates == {"not-a-file", "stat-error", "terminal", "pipe-empty", "pipe-text",
                "pipe-read-error"}

\* faulty variant: falls back to standard input when the pane capture fails
AskGatherInputFallback ==
  /\ variant = "direct" /\ pc = "gather"
  /\ IF pane # ""
     THEN IF ~ValidateTargetOk(pane)
          THEN /\ Fail("invalid-pane-target", "none")
               /\ UNCHANGED <<input, captureCalls, stdinReads>>
          ELSE /\ captureCalls' = captureCalls + 1
               /\ \E captured \in BOOLEAN :
                    IF captured
                    THEN /\ input' = CapturedText /\ UNCHANGED stdinReads
                    ELSE /\ input' = <<>> /\ stdinReads' = stdinReads + 1
               /\ Goto("resolve")
     ELSE /\ UNCHANGED captureCalls
          /\ \E st \in StdinStates :
               CASE st = "stat-error" ->
                      /\ Fail("stdin-check", "stat") /\ UNCHANGED <<input, stdinReads>>
                 [] st \in {"not-a-file", "terminal"} ->
                      /\ Goto("resolve") /\ UNCHANGED <<input, stdinReads>>
                 [] st = "pipe-empty" ->
                      /\ stdinReads' = stdinReads + 1
                      /\ input' = <<>> /\ Goto("resolve")
                 [] st = "pipe-text" ->
                      /\ stdinReads' = stdinReads + 1
                      /\ input' = CapturedText /\ Goto("resolve")
                 [] st = "pipe-read-error" ->
                      /\ stdinReads' = stdinReads + 1
                      /\ input' = <<>> /\ Fail("stdin-read", "read")
  /\ UNCHANGED <<inputVars, promptVars, userWithContext, backendVars, outVars, reads>>

\* ask.go:151-187
AskGatherInput ==
  /\ variant = "direct" /\ pc = "gather"
  /\ IF pane # ""
     THEN /\ UNCHANGED stdinReads
          /\ IF ~ValidateTargetOk(pane)
             THEN /\ Fail("invalid-pane-target", "none")
                  /\ UNCHANGED <<input, captureCalls>>
             ELSE /\ captureCalls' = captureCalls + 1
                  /\ \E captured \in BOOLEAN :
                       IF captured
                       THEN /\ input' = CapturedText /\ Goto("resolve")
                       ELSE /\ input' = <<>> /\ Fail("pane-not-found", "none")
     ELSE /\ UNCHANGED captureCalls
          /\ \E st \in StdinStates :
               CASE st = "stat-error" ->
                      /\ Fail("stdin-check", "stat") /\ UNCHANGED <<input, stdinReads>>
                 [] st \in {"not-a-file", "terminal"} ->
                      /\ Goto("resolve") /\ UNCHANGED <<input, stdinReads>>
                 [] st = "pipe-empty" ->
                      /\ stdinReads' = stdinReads + 1
                      /\ input' = <<>> /\ Goto("resolve")
                 [] st = "pipe-text" ->
                      /\ stdinReads' = stdinReads + 1
                      /\ input' = CapturedText /\ Goto("resolve")
                 [] st = "pipe-read-error" ->
                      /\ stdinReads' = stdinReads + 1
                      /\ input' = <<>> /\ Fail("stdin-read", "read")
  /\ UNCHANGED <<inputVars, promptVars, userWithContext, backendVars, outVars, reads>>

\* ask.go:79-92 with resolvePrompt, ask.go:190-240
AskResolvePrompt ==
  /\ variant = "direct" /\ pc = "resolve"
  /\ LET effectiveModel == EffectiveModel(model)
     IN IF Len(args) = 0
        THEN /\ Fail("no-prompt", "none")
             /\ UNCHANGED promptVars
        ELSE IF HasPrefix(args[1], Sigil)
        THEN \E found \in BOOLEAN, pModel \in TemplateModels, rendered \in BOOLEAN :
               IF ~found
               THEN /\ Fail("template-not-found", "none")
                    /\ UNCHANGED promptVars
               ELSE /\ tmplModel' = pModel
                    /\ execData' = TemplateData(vars, input)
                    /\ execCalls' = execCalls + 1
                    /\ IF ~rendered
                       THEN /\ Fail("template-render", "execute")
                            /\ UNCHANGED <<systemPrompt, userPrompt, promptModel,
                                           finalModel>>
                       ELSE /\ systemPrompt' = RenderSystem(execData')
                            /\ userPrompt' = RenderUser(execData')
                            /\ promptModel' = TemplateModel(pModel, effectiveModel)
                            /\ finalModel' = FinalModel(promptModel', effectiveModel)
                            /\ Goto("merge")
        ELSE /\ systemPrompt' = <<>>
             /\ userPrompt' = DirectQuestion(args[1], input)
             /\ promptModel' = effectiveModel
             /\ finalModel' = FinalModel(promptModel', effectiveModel)
             /\ UNCHANGED <<tmplModel, execCalls, execData>>
             /\ Goto("merge")
  /\ UNCHANGED <<inputVars, input, userWithContext, backendVars, outVars, reads,
                 gatherVars>>

\* ask.go:94-97
AskMergeContext ==
  /\ variant = "direct" /\ pc = "merge"
  /\ LET m == mergeContextToPrompt(userPrompt, contextFiles)
     IN /\ reads' = m.reads
        /\ userWithContext' = m.text
        /\ IF m.err = "none" THEN Goto("client") ELSE Fail(m.err, "none")
  /\ UNCHANGED <<inputVars, input, promptVars, backendVars, outVars, gatherVars>>

\* ask.go:99-111
AskNewClient ==
  /\ variant = "direct" /\ pc = "client"
  /\ cfgProvider' = IF provider # "" THEN provider ELSE cfgProvider
  /\ \E created \in BOOLEAN :
       IF created
       THEN /\ clientCreated' = TRUE /\ Goto("run")
       ELSE /\ clientCreated' = FALSE /\ Fail("client-create", "new-client")
  /\ UNCHANGED <<inputVars, input, promptVars, userWithContext, daemonUp, warned,
                 backendUsed, procStarted, piLookup, clock, backendCalls, callOpts,
                 response,
                 outVars, reads, gatherVars>>

\* faulty variant: calls the service again after a failed request
AskServiceRunRetry ==
  /\ variant = "direct" /\ pc = "run"
  /\ backendCalls' = backendCalls + 1
  /\ backendUsed' = "direct-client"
  /\ callOpts' = [model |-> finalModel, system |-> systemPrompt,
                  prompt |-> userWithContext, tools |-> <<>>]
  /\ \/ \E text \in Answers : /\ response' = text /\ Goto("output")
     \/ /\ backendCalls = 0 /\ response' = <<>> /\ Goto("run")
     \/ /\ backendCalls > 0 /\ response' = <<>> /\ Fail("ai-request", "run")
  /\ UNCHANGED <<inputVars, input, promptVars, userWithContext, cfgProvider,
                 clientCreated, daemonUp, warned, procStarted, piLookup, clock, outVars,
                 reads, gatherVars>>

\* ask.go:113-123
AskServiceRun ==
  /\ variant = "direct" /\ pc = "run"
  /\ backendCalls' = backendCalls + 1
  /\ backendUsed' = "direct-client"
  /\ callOpts' = [model |-> finalModel, system |-> systemPrompt,
                  prompt |-> userWithContext, tools |-> <<>>]
  /\ \/ \E text \in Answers : /\ response' = text /\ Goto("output")
     \/ /\ response' = <<>> /\ Fail("ai-request", "run")
  /\ UNCHANGED <<inputVars, input, promptVars, userWithContext, cfgProvider,
                 clientCreated, daemonUp, warned, procStarted, piLookup, clock, outVars,
                 reads, gatherVars>>

\* ask.go:330-334 and ask.go:339-343
ResultObject(text, prov, mdl) ==
  [k \in {"response", "provider", "model"} |->
     IF k = "response" THEN TrimSpace(text)
     ELSE IF k = "provider" THEN prov ELSE mdl]

\* ask.go:125-126 with outputResult, ask.go:327-353
AskOutputResult ==
  /\ variant = "direct" /\ pc = "output"
  /\ CASE outFmt \in {"json", "yaml"} ->
            \E encoded \in BOOLEAN :
              IF encoded
              THEN /\ stdoutKind' = outFmt
                   /\ stdoutObj' = ResultObject(response, provider, finalModel)
                   /\ UNCHANGED stdoutText
                   /\ Goto("done")
              ELSE /\ UNCHANGED outVars /\ Fail("encode", "encoder")
       [] outFmt = "quiet" ->
            /\ UNCHANGED outVars /\ Goto("done")
       [] OTHER ->
            /\ stdoutKind' = "text"
            /\ stdoutText' = TrimSpace(response) \o <<"\n">>
            /\ UNCHANGED stdoutObj
            /\ Goto("done")
  /\ UNCHANGED <<inputVars, input, promptVars, userWithContext, backendVars, reads,
                 gatherVars>>

----------------------------------------------------------------------------
(* The daemon-bridge command, root.go:155-228 *)

\* root.go:156-162: --list-templates, then outputOpts.Resolve()
RootStart ==
  /\ variant = "bridge" /\ pc = "start"
  /\ IF listTemplates
     THEN /\ stdoutKind' = "listing" /\ Goto("done")
     ELSE /\ UNCHANGED stdoutKind
          /\ \E resolved \in BOOLEAN :
               IF resolved THEN Goto("daemon") ELSE Fail("output-options", "none")
  /\ UNCHANGED <<inputVars, input, promptVars, userWithContext, backendVars,
                 stdoutText, stdoutObj, reads, gatherVars>>

\* root.go:164-168 with IsDaemonRunning, root.go:48-53
RootCheckDaemon ==
  /\ variant = "bridge" /\ pc = "daemon"
  /\ \E socketExists \in BOOLEAN :
       /\ daemonUp' = socketExists
       /\ warned' = ~socketExists
  /\ Goto("gather")
  /\ UNCHANGED <<inputVars, input, promptVars, userWithContext, cfgProvider,
                 clientCreated, backendUsed, procStarted, piLookup, clock, backendCalls,
                 callOpts, response, outVars, reads, gatherVars>>

RootStdinStates == {"stat-error", "terminal", "pipe-empty", "pipe-text",
                    "pipe-read-error"}

\* root.go:243-270; the error of os.Stdin.Stat() is dropped, so a failed Stat
\* leaves a nil FileInfo whose Mode() call panics
RootGatherInput ==
  /\ variant = "bridge" /\ pc = "gather"
  /\ IF pane # ""
     THEN /\ UNCHANGED stdinReads
          /\ IF ~ValidateTargetOk(pane)
             THEN /\ Fail("invalid-pane-target", "validate")
                  /\ UNCHANGED <<input, captureCalls>>
             ELSE /\ captureCalls' = captureCalls + 1
                  /\ \E captured \in BOOLEAN :
                       IF captured
                       THEN /\ input' = CapturedText /\ Goto("merge")
                       ELSE /\ input' = <<>> /\ Fail("capture-failed", "capture")
     ELSE /\ UNCHANGED captureCalls
          /\ \E st \in RootStdinStates :
               CASE st = "stat-error" ->
                      /\ Fail("panic", "nil-stat") /\ UNCHANGED <<input, stdinReads>>
                 [] st = "terminal" ->
                      /\ Goto("merge") /\ UNCHANGED <<input, stdinReads>>
                 [] st = "pipe-empty" ->
                      /\ stdinReads' = stdinReads + 1
                      /\ input' = <<>> /\ Goto("merge")
                 [] st = "pipe-text" ->
                      /\ stdinReads' = stdinReads + 1
                      /\ input' = CapturedText /\ Goto("merge")
                 [] st = "pipe-read-error" ->
                      /\ stdinReads' = stdinReads + 1
                      /\ input' = <<>> /\ Fail("stdin-read", "read")
  /\ UNCHANGED <<inputVars, promptVars, userWithContext, backendVars, outVars, reads>>

\* root.go:176-180
RootMergeContext ==
  /\ variant = "bridge" /\ pc = "merge"
  /\ LET m == mergeContext(input, contextFiles)
     IN /\ reads' = m.reads
        /\ input' = m.text
        /\ IF m.err = "none" THEN Goto("prompt") ELSE Fail(m.err, "read-file")
  /\ UNCHANGED <<inputVars, promptVars, userWithContext, backendVars, outVars,
                 gatherVars>>

\* root.go:192-200
RootPrompt(as, in) ==
  LET p == IF Len(as) > 0 THEN as[1] ELSE <<>>
  IN IF in # <<>> THEN SprintfInput(p, in) ELSE p

\* root.go:182-200
RootBuildPrompt ==
  /\ variant = "bridge" /\ pc = "prompt"
  /\ IF Len(args) = 0 /\ input = <<>>
     THEN /\ Fail("no-prompt", "none")
          /\ UNCHANGED userWithContext
     ELSE /\ userWithContext' = RootPrompt(args, input)
          /\ Goto("ask")
  /\ UNCHANGED <<inputVars, input, promptVars, backendVars, outVars, reads,
                 gatherVars>>

\* faulty variant: drops the lookup error and starts the subprocess anyway
RootAskIgnoreLookup ==
  /\ variant = "bridge" /\ pc = "ask"
  /\ backendCalls' = backendCalls + 1
  /\ callOpts' = [model |-> "", system |-> <<>>, prompt |-> userWithContext,
                  tools |-> tools]
  /\ clock' = 0
  /\ \E piFound \in BOOLEAN :
       IF piFound
       THEN /\ piLookup' = "found"
            /\ backendUsed' = "pi"
            /\ procStarted' = procStarted + 1
            /\ Goto("wait")
       ELSE /\ piLookup' = "absent"
            /\ backendUsed' = "pi"
            /\ procStarted' = procStarted + 1
            /\ Goto("wait")
  /\ UNCHANGED <<inputVars, input, promptVars, userWithContext, cfgProvider,
                 clientCreated, daemonUp, warned, response, outVars, reads,
                 gatherVars>>

\* root.go:202-211 with Ask/AskWithTools, root.go:56-71, and the start of
\* fallbackAsk, root.go:74-91: the context is received and never consulted
RootAsk ==
  /\ variant = "bridge" /\ pc = "ask"
  /\ backendCalls' = backendCalls + 1
  /\ callOpts' = [model |-> "", system |-> <<>>, prompt |-> userWithContext,
                  tools |-> tools]
  /\ clock' = 0
  /\ \E piFound \in BOOLEAN :
       IF piFound
       THEN /\ piLookup' = "found"
            /\ backendUsed' = "pi"
            /\ procStarted' = procStarted + 1
            /\ Goto("wait")
       ELSE /\ piLookup' = "absent"
            /\ UNCHANGED <<backendUsed, procStarted>>
            /\ Fail("ai-query", "pi-not-found")
  /\ UNCHANGED <<inputVars, input, promptVars, userWithContext, cfgProvider,
                 clientCreated, daemonUp, warned, response, outVars, reads,
                 gatherVars>>

\* time passes while cmd.Output() blocks on the subprocess, root.go:91
RootTick ==
  /\ variant = "bridge" /\ pc = "wait"
  /\ clock + TickSeconds <= MaxClock
  /\ clock' = clock + TickSeconds
  /\ UNCHANGED <<pc, err, errCause, errHint, inputVars, input, promptVars, userWithContext,
                 cfgProvider, clientCreated, daemonUp, warned, backendUsed,
                 procStarted, piLookup, backendCalls, callOpts, response, outVars, reads,
                 gatherVars>>

\* the subprocess ends and cmd.Output() returns, root.go:91-99
RootPiExit ==
  /\ variant = "bridge" /\ pc = "wait"
  /\ \/ \E text \in Answers : /\ response' = TrimSpace(text) /\ Goto("output")
     \/ /\ response' = <<>> /\ Fail("ai-query", "pi-failed")
     \/ /\ response' = <<>> /\ Fail("ai-query", "pi-run")
  /\ UNCHANGED <<inputVars, input, promptVars, userWithContext, cfgProvider,
                 clientCreated, daemonUp, warned, backendUsed, procStarted, piLookup,
                 clock,
                 backendCalls, callOpts, outVars, reads, gatherVars>>

\* root.go:220
RootObject(answer) == [k \in {"response"} |-> answer]

\* root.go:217-227
RootOutput ==
  /\ variant = "bridge" /\ pc = "output"
  /\ CASE outFmt = "json" ->
            /\ stdoutKind' = "json"
            /\ stdoutObj' = RootObject(response)
            /\ UNCHANGED stdoutText
       [] outFmt = "quiet" ->
            UNCHANGED outVars
       [] OTHER ->
            /\ stdoutKind' = "text"
            /\ stdoutText' = response \o <<"\n">>
            /\ UNCHANGED stdoutObj
  /\ Goto("done")
  /\ UNCHANGED <<inputVars, input, promptVars, userWithContext, backendVars, reads,
                 gatherVars>>

----------------------------------------------------------------------------

Next ==
  \/ AskStart
  \/ AskGatherInput
  \/ AskResolvePrompt
  \/ AskMergeContext
  \/ AskNewClient
  \/ AskServiceRun
  \/ AskOutputResult
  \/ RootStart
  \/ RootCheckDaemon
  \/ RootGatherInput
  \/ RootMergeContext
  \/ RootBuildPrompt
  \/ RootAsk
  \/ RootTick
  \/ RootPiExit
  \/ RootOutput

Spec == Init /\ [][Next]_vars_all

----------------------------------------------------------------------------
(* Observation points *)

\* the direct command returned from resolvePrompt without an error
AskResolved ==
  /\ variant = "direct"
  /\ ~listTemplates
  /\ \/ pc \in {"merge", "client", "run", "output"}
     \/ /\ pc = "done"
        /\ err \in {"none", "context-read", "context-dir", "client-create",
                    "ai-request", "encode"}

\* the merge step of either command has returned
MergeReturned ==
  /\ ~listTemplates
  /\ \/ /\ variant = "direct"
        /\ \/ pc \in {"client", "run", "output"}
           \/ /\ pc = "done"
              /\ err \in {"none", "context-read", "context-dir", "client-create",
                          "ai-request", "encode"}
     \/ /\ variant = "bridge"
        /\ \/ pc \in {"prompt", "ask", "wait", "output"}
           \/ /\ pc = "done"
              /\ err \in {"none", "context-read", "no-prompt", "ai-query"}

\* the invocation ended after input gathering, prompt resolution and context
\* merging had all succeeded
PipelineSucceeded ==
  /\ pc = "done"
  /\ ~listTemplates
  /\ \/ variant = "direct" /\ err \in {"none", "client-create", "ai-request", "encode"}
     \/ variant = "bridge" /\ err \in {"none", "ai-query"}

\* the path a --context reference names for the command that runs
RefPath(raw) == IF variant = "direct" THEN ContextPath(raw) ELSE raw

----------------------------------------------------------------------------
(* C1 *)

ExpectedModel ==
  IF model # "" THEN model
  ELSE IF execCalls > 0 /\ tmplModel # "" THEN tmplModel
  ELSE defaultModel

\* C1: the model passed to the backend call of the direct command is the
\* --model flag when it is set, else the template's declared model when the
\* template declares one, else the hard-coded default.
C1_ModelPrecedence ==
  (variant = "direct" /\ backendCalls > 0) => callOpts.model = ExpectedModel

----------------------------------------------------------------------------
(* C2 *)

\* C2: the 60-second timeout bounds the whole backend interaction of the bridge
\* command: the invocation is never still blocked on the subprocess once more
\* than the timeout has passed.
C2_BoundedBackendCall ==
  (variant = "bridge" /\ pc = "wait") => clock <= Timeout

----------------------------------------------------------------------------
(* C3 *)

\* C3: in the bridge command the daemon answers when its endpoint exists, and
\* the pi fallback answers, after the warning, only when the endpoint is absent.
C3_BackendSelection ==
  (variant = "bridge" /\ backendUsed # "none") =>
     /\ backendUsed = (IF daemonUp THEN "daemon" ELSE "pi")
     /\ (backendUsed = "pi" => warned)

----------------------------------------------------------------------------
(* C4 *)

\* C4: the bindings handed to template rendering map "Input" to the collected
\* input, whether or not the caller bound "Input", and pass every other caller
\* key through with the caller's value.
C4_ReservedInputKey ==
  execCalls > 0 =>
     /\ DOMAIN execData = (DOMAIN vars) \cup {"Input"}
     /\ execData["Input"] = input
     /\ \A k \in (DOMAIN vars) \ {"Input"} : execData[k] = vars[k]

\* a template was rendered although the caller had bound "Input" to other text
C4_Witness ==
  /\ execCalls > 0
  /\ DOMAIN vars = {"Input", "Name"}
  /\ vars["Input"] # input
  /\ input = <<>>
  /\ pc = "merge"

----------------------------------------------------------------------------
(* C5 *)

BlankLine == <<"\n", "\n">>
LabelLine(path) ==
  <<"C", "o", "n", "t", "e", "x", "t", " ", "(">> \o path \o <<")", ":">> \o <<"\n">>

RECURSIVE AppendedContext(_, _)
AppendedContext(text, refs) ==
  IF refs = <<>> THEN text
  ELSE AppendedContext(
         text \o BlankLine \o LabelLine(RefPath(Head(refs)))
              \o FileData(RefPath(Head(refs))),
         Tail(refs))

AllReadable ==
  \A i \in 1..Len(contextFiles) : FileKind(RefPath(contextFiles[i])) = "file"

\* C5: when every context reference is a readable file, the merge step returns
\* the prompt followed, per reference in list order and without deduplication,
\* by a blank line, the label line naming the file's path and the file's
\* content; an empty list returns the prompt unchanged.
C5_ContextMerging ==
  [][ (pc = "merge" /\ AllReadable) =>
        /\ err' = "none"
        /\ variant = "direct" =>
             userWithContext' = AppendedContext(userPrompt, contextFiles)
        /\ variant = "bridge" =>
             input' = AppendedContext(input, contextFiles)
    ]_vars_all

\* the same file listed twice was merged twice into a non-empty prompt
C5_Witness ==
  /\ MergeReturned
  /\ contextFiles = <<PathF, PathF>>
  /\ reads = <<PathF, PathF>>
  /\ err = "none"

----------------------------------------------------------------------------
(* C6 *)

HasDirRef ==
  \E i \in 1..Len(contextFiles) : IsDir(RefPath(contextFiles[i]))

\* the merged text the merge step handed back
MergedText == IF variant = "direct" THEN userWithContext ELSE input

\* C6 as stated: a directory among the context references makes the merge fail
\* with no merged prompt, no file content read at all and no backend call.
C6_DirectoryRejectedNothingRead ==
  (MergeReturned /\ HasDirRef) =>
     /\ err \in {"context-dir", "context-read"}
     /\ MergedText = <<>>
     /\ reads = <<>>
     /\ backendCalls = 0

\* a reference the merge of the running command rejects or skips
Rejected(raw) == RefPath(raw) # <<>> /\ FileKind(RefPath(raw)) # "file"

FirstRejected ==
  CHOOSE i \in 1..Len(contextFiles) :
    /\ Rejected(contextFiles[i])
    /\ \A j \in 1..(i - 1) : ~Rejected(contextFiles[j])

RECURSIVE PathsRead(_)
PathsRead(refs) ==
  IF refs = <<>> THEN <<>>
  ELSE IF RefPath(Head(refs)) = <<>> THEN PathsRead(Tail(refs))
  ELSE <<RefPath(Head(refs))>> \o PathsRead(Tail(refs))

\* C6 amended: a directory among the context references makes the merge fail
\* with no merged prompt and no backend call; the files read are exactly those
\* listed before the first rejected reference, so neither the directory nor
\* anything after it is read.
C6_DirectoryRejected ==
  (MergeReturned /\ HasDirRef) =>
     /\ err \in {"context-dir", "context-read"}
     /\ MergedText = <<>>
     /\ backendCalls = 0
     /\ reads = PathsRead(SubSeq(contextFiles, 1, FirstRejected - 1))
     /\ \A i \in 1..Len(reads) : ~IsDir(reads[i])

\* a file listed before a directory was read before the directory was rejected
C6_Witness ==
  /\ variant = "direct"
  /\ contextFiles = <<PathF, PathD>>
  /\ pc = "done"
  /\ err = "context-dir"
  /\ reads = <<PathF>>

----------------------------------------------------------------------------
(* C7 *)

\* C7: the missing-prompt error is returned, before any backend call, only when
\* there is neither a positional argument nor collected input; input alone is
\* enough to pass the check.
C7_MissingPromptIsConjunction ==
  err = "no-prompt" => (Len(args) = 0 /\ input = <<>> /\ backendCalls = 0)

----------------------------------------------------------------------------
(* C8 *)

\* C8: for a direct question the user prompt is the argument, followed by a
\* blank line, "Input:", a newline and the collected input when there is input;
\* the system prompt is empty, without --model the model is the hard-coded
\* default, and without context files this is the prompt the backend receives.
C8_DirectQuestion ==
  (AskResolved /\ ~HasPrefix(args[1], Sigil)) =>
     /\ userPrompt =
          (IF input = <<>> THEN args[1]
           ELSE args[1] \o BlankLine \o <<"I", "n", "p", "u", "t", ":">>
                        \o <<"\n">> \o input)
     /\ systemPrompt = <<>>
     /\ (model = "" => finalModel = defaultModel)
     /\ (backendCalls > 0 /\ contextFiles = <<>>) =>
           /\ callOpts.prompt = userPrompt
           /\ callOpts.system = <<>>
           /\ (model = "" => callOpts.model = defaultModel)

\* a piped text was asked about with a direct question and reached the backend
C8_Witness ==
  /\ AskResolved
  /\ args = <<Question>>
  /\ input = CapturedText
  /\ model = ""
  /\ contextFiles = <<>>
  /\ backendCalls = 1

----------------------------------------------------------------------------
(* C9 *)

\* C9 as stated: at most one backend call per invocation, and exactly one
\* whenever input gathering, prompt resolution and context merging succeeded.
C9_ExactlyOneCallAfterPipeline ==
  /\ backendCalls <= 1
  /\ PipelineSucceeded => backendCalls = 1

\* C9 amended: at most one backend call per invocation; exactly one whenever
\* gathering, resolution and merging succeeded and, in the direct command, the
\* AI client was created; a failed call ends the invocation with that one call.
C9_SingleBackendCall ==
  /\ backendCalls <= 1
  /\ (PipelineSucceeded /\ (variant = "direct" => clientCreated)) => backendCalls = 1
  /\ (PipelineSucceeded /\ variant = "direct" /\ ~clientCreated) => backendCalls = 0
  /\ err \in {"ai-request", "ai-query"} => (pc = "done" /\ backendCalls = 1)

\* a backend call failed and the invocation ended without a second call
C9_Witness ==
  /\ PipelineSucceeded
  /\ err \in {"ai-request", "ai-query"}
  /\ backendCalls = 1

----------------------------------------------------------------------------
(* C10 *)

\* C10: every invocation that succeeds in JSON or YAML mode has emitted an
\* object holding the trimmed answer, the provider and the model, the provider
\* and model fields being present even when empty, in both commands.
C10_StructuredOutputComplete ==
  (pc = "done" /\ err = "none" /\ ~listTemplates /\ outFmt \in {"json", "yaml"}) =>
     /\ stdoutKind = outFmt
     /\ {"response", "provider", "model"} \subseteq DOMAIN stdoutObj
     /\ stdoutObj["response"] = TrimSpace(response)
     /\ stdoutObj["model"] = callOpts.model

----------------------------------------------------------------------------
(* C11 *)

\* gatherInput of either command has returned
GatherReturned ==
  /\ ~listTemplates
  /\ pc \notin {"start", "daemon", "gather"}
  /\ err # "output-options"

\* C11 as stated: exactly one of pane capture and standard-input read runs in
\* every invocation, and with a pane target given it is the capture, also when
\* validation or capture fails.
C11_ExactlyOneInputSource ==
  GatherReturned =>
     /\ captureCalls + stdinReads = 1
     /\ pane # "" => (captureCalls = 1 /\ stdinReads = 0)

\* C11 amended: at most one of pane capture and standard-input read runs; with
\* a pane target given standard input is never read and the capture runs once
\* when the target is well formed and not at all when it is malformed; without
\* a pane target no capture runs and standard input is read at most once.
C11_InputSourceExclusive ==
  GatherReturned =>
     /\ captureCalls + stdinReads <= 1
     /\ pane = "fe:0.0" => (captureCalls = 1 /\ stdinReads = 0)
     /\ pane = "bad-format" => (captureCalls = 0 /\ stdinReads = 0)
     /\ pane = "" => captureCalls = 0

\* a capture of a well-formed pane target failed and standard input stayed unread
C11_Witness ==
  /\ pane = "fe:0.0"
  /\ err \in {"pane-not-found", "capture-failed"}
  /\ captureCalls = 1
  /\ stdinReads = 0

----------------------------------------------------------------------------
(* C12 *)

\* the remedies that spell out the session:window.pane shape
PaneShapeHints ==
  {"Pane format must be: session:window.pane (e.g., fe:0.0)",
   "Format: session:window.pane (e.g., dev:0.0)"}

\* C12: a malformed pane target ends the invocation with the invalid-target
\* error that spells out the session:window.pane shape; no capture is asked
\* for, no prompt is resolved and no backend is called.
C12_MalformedPaneTarget ==
  (GatherReturned /\ pane = "bad-format") =>
     /\ pc = "done"
     /\ err = "invalid-pane-target"
     /\ errHint \in PaneShapeHints
     /\ captureCalls = 0
     /\ execCalls = 0 /\ userPrompt = <<>> /\ userWithContext = <<>>
     /\ backendCalls = 0 /\ procStarted = 0

\* an invocation with the target "bad-format" has ended in gatherInput
C12_Witness ==
  /\ GatherReturned
  /\ pane = "bad-format"
  /\ err = "invalid-pane-target"
  /\ pc = "done"

----------------------------------------------------------------------------
(* C13 *)

\* C13: in the bridge command, with the daemon endpoint absent and the pi
\* executable not found, the invocation ends with an error naming the install
\* command, starts no subprocess and writes nothing to the answer stream,
\* whatever the output mode.
C13_FallbackExecutableAbsent ==
  (variant = "bridge" /\ ~daemonUp /\ piLookup = "absent") =>
     /\ pc = "done"
     /\ err = "ai-query"
     /\ errCause = "pi-not-found"
     /\ errHint = "Pi not found. Install: npm install -g @mariozechner/pi-coding-agent"
     /\ procStarted = 0
     /\ backendUsed = "none"
     /\ stdoutKind = "none" /\ stdoutText = <<>> /\ DOMAIN stdoutObj = {}

\* the lookup of pi failed after the fallback note, in JSON mode
C13_Witness ==
  /\ variant = "bridge"
  /\ ~daemonUp /\ warned
  /\ piLookup = "absent"
  /\ outFmt = "json"
  /\ pc = "done"

====
